---- MODULE Spec2Model ----
(***************************************************************************)
(* AIOT LLM service: the MCP dispatch layer.                               *)
(*                                                                         *)
(*   MCPServiceRegistry             mcp_integration/mcp_client.py          *)
(*   NaturalLanguageQueryProcessor  mcp_integration/mcp_client.py          *)
(*   MCPServiceClient               mcp_integration/service_client.py      *)
(*   RedisManager (MCP cache)       database/redis_connection.py           *)
(*   PostgreSQLManager (audit)      database/postgres_connection.py        *)
(*                                                                         *)
(* Python values are modelled as records of one shape per sort, so that    *)
(* "a mapping", "not a mapping" and "None" can be told apart:              *)
(*   arguments   [kind, items]   items = the dict's pairs in insertion     *)
(*                               order (kind "dict"), <<>> otherwise       *)
(*   tool result [kind, success, error, data]                              *)
(* The environment (Redis, PostgreSQL, the backend services and the        *)
(* text-completion capability) is chosen nondeterministically per call.    *)
(***************************************************************************)
EXTENDS Integers, Sequences, FiniteSets, TLC

VARIABLES
    services,    \* MCPServiceRegistry.services, in dict order: [name, url, tools]
    tools,       \* MCPServiceRegistry.tools: tool name -> service name
    cache,       \* Redis keys mcp_cache:*: key -> [value, expires]
    audit,       \* PostgreSQL table mcp_tool_calls, in insertion order
    now,         \* wall clock, seconds
    queries,     \* number of process_query invocations so far
    last,        \* what the latest process_query invocation did
    h_in,        \* cache-key computation: the tool name and two argument mappings
    h_out,       \* cache-key computation: the two keys, once computed
    registered,  \* the latest register_service call: [n, service, url, tools]
    mcp_processor,       \* LLMWebSocketHandler.mcp_processor is not None
    active_connections,  \* ConnectionManager.active_connections: its keys
    user_sessions,       \* ConnectionManager.user_sessions: user -> connection ids
    conn,        \* per connection: where handle_connection stands, and its socket
    outbox,      \* per connection: the envelopes attempted since its latest read
    messages,    \* PostgreSQL table messages (conversation turns), in insertion order
    dedicated,   \* per dedicated endpoint (/ws/chat, /ws/stream): its socket
    broadcast,   \* the broadcast_to_user call in progress, if any
    appender     \* per task: where its append_conversation_message call stands

vars == <<services, tools, cache, audit, now, queries, last, h_in, h_out,
          registered, mcp_processor, active_connections, user_sessions, conn, outbox,
          messages, dedicated, broadcast, appender>>

\* the dedicated endpoints, the broadcast call and the append tasks
taskVars == <<dedicated, broadcast, appender>>

\* the variables of llm-service: the connection manager, the handler, the
\* history store and the tasks above
wsVars == <<mcp_processor, active_connections, user_sessions, conn, outbox,
            messages, dedicated, broadcast, appender>>

----------------------------------------------------------------------------
(* Bounds of the model *)

MaxQueries == 2
MaxNow == 1000
TickStep == 450
MaxArgs == 2

(* Program constants *)

DefaultTtl == 900
TTL_MCP_CACHE == 900

----------------------------------------------------------------------------
(* Python values *)

Dict(items) == [kind |-> "dict", items |-> items]
NotADict(kind) == [kind |-> kind, items |-> <<>>]

\* the same two pairs in the two insertion orders, the empty mapping, and
\* a JSON string where a mapping is expected
ArgsUT == Dict(<< <<"userId", "42">>, <<"theme", "dark">> >>)
ArgsTU == Dict(<< <<"theme", "dark">>, <<"userId", "42">> >>)
ArgsEmpty == Dict(<< >>)
ArgsStr == NotADict("str")

ArgumentValues == {ArgsUT, ArgsTU, ArgsEmpty, ArgsStr}

\* Python's == on two argument values: dicts compare as sets of pairs
SameArguments(a, b) ==
    /\ a.kind = b.kind
    /\ {a.items[i] : i \in DOMAIN a.items} = {b.items[i] : i \in DOMAIN b.items}

\* dict.get(key): the value, or "None"
DictGet(d, key) ==
    IF \E i \in DOMAIN d.items : d.items[i][1] = key
    THEN (d.items[CHOOSE i \in DOMAIN d.items : d.items[i][1] = key])[2]
    ELSE "None"

\* rank of the argument keys in Python's string order
\* ("limit" < "theme" < "userId")
KeyRank(k) == CASE k = "limit" -> 1 [] k = "theme" -> 2 [] k = "userId" -> 3 [] OTHER -> 4

RECURSIVE InsertSorted(_, _)
InsertSorted(p, s) ==
    IF s = <<>> THEN <<p>>
    ELSE IF KeyRank(p[1]) <= KeyRank(Head(s)[1]) THEN <<p>> \o s
    ELSE <<Head(s)>> \o InsertSorted(p, Tail(s))

RECURSIVE Sorted(_)
Sorted(s) == IF s = <<>> THEN <<>> ELSE InsertSorted(Head(s), Sorted(Tail(s)))

\* tool results, as the transports and the cache hand them back
ResultDict(success, error, data) ==
    [kind |-> "dict", success |-> success, error |-> error, data |-> data]
\* a JSON body that is not an object, and Python's None
ResultList == [kind |-> "list", success |-> FALSE, error |-> "None", data |-> <<>>]
None == [kind |-> "None", success |-> FALSE, error |-> "None", data |-> <<>>]

\* bool(value) of a tool result: None is falsy, a dict with a key is truthy
Truthy(r) == r.kind # "None"

\* a variant that takes any mapping for a success ("if result:")
ResultPresent(r) == r.kind = "dict"

\* result.get('success', False) as a condition
ResultSuccess(r) == r.kind = "dict" /\ r.success

----------------------------------------------------------------------------
(* MCPServiceRegistry *)

GeneralServiceTools ==
    <<"get_user_preferences", "update_user_preference", "create_user_preference">>
RbacServiceTools ==
    <<"get_user_info", "list_users", "get_user_roles", "get_user_permissions",
      "list_roles", "check_user_permission">>
DroneServiceTools ==
    <<"get_drone_positions", "get_drone_position_by_id", "get_drone_commands",
      "get_drone_command_by_id", "get_drone_statuses", "get_drone_status_by_id",
      "get_drone_realtime_status", "get_archive_tasks", "get_drone_statistics",
      "search_drone_data">>
AuthServiceTools ==
    <<"get_current_user", "validate_user_token", "get_user_sessions",
      "check_user_authentication", "get_login_history", "get_auth_statistics",
      "verify_user_permissions", "get_security_events">>

Range(s) == {s[i] : i \in DOMAIN s}

\* the keys of {tool['name']: tool for tool in tools}, in dict order: a
\* repeated name keeps its first position
RECURSIVE DictKeys(_)
DictKeys(s) ==
    IF s = <<>> THEN <<>>
    ELSE LET front == DictKeys(SubSeq(s, 1, Len(s) - 1))
             t == s[Len(s)]
         IN IF t \in Range(front) THEN front ELSE Append(front, t)

ServiceNames(svcs) == {svcs[i].name : i \in DOMAIN svcs}

\* self.services.get(service_name); asked only for registered names
ServiceInfo(svcs, service_name) ==
    svcs[CHOOSE i \in DOMAIN svcs : svcs[i].name = service_name]

\* a variant of register_service that keeps the owner a tool name already has
register_service_keep(reg, service_name, service_url, tool_list) ==
    LET entry == [name |-> service_name, url |-> service_url,
                  tools |-> DictKeys(tool_list)]
    IN [services |->
            IF service_name \in ServiceNames(reg.services)
            THEN [i \in DOMAIN reg.services |->
                    IF reg.services[i].name = service_name THEN entry
                    ELSE reg.services[i]]
            ELSE Append(reg.services, entry),
        tools |->
            [t \in DOMAIN reg.tools \cup Range(tool_list) |->
                IF t \in DOMAIN reg.tools THEN reg.tools[t] ELSE service_name]]

\* the registry after register_service(service_name, service_url, tool_list):
\* a dict assignment keeps the position of a key that is already present
register_service(reg, service_name, service_url, tool_list) ==
    LET entry == [name |-> service_name, url |-> service_url,
                  tools |-> DictKeys(tool_list)]
    IN [services |->
            IF service_name \in ServiceNames(reg.services)
            THEN [i \in DOMAIN reg.services |->
                    IF reg.services[i].name = service_name THEN entry
                    ELSE reg.services[i]]
            ELSE Append(reg.services, entry),
        tools |->
            [t \in DOMAIN reg.tools \cup Range(tool_list) |->
                IF t \in Range(tool_list) THEN service_name ELSE reg.tools[t]]]

\* find_tool(tool_name): [found, service, service_url]
NotFound == [found |-> FALSE, service |-> "None", service_url |-> "None"]

\* a variant that falls back to general-service for a name it does not know
find_tool_default(tool_name) ==
    IF tool_name \in DOMAIN tools
    THEN [found |-> TRUE, service |-> tools[tool_name],
          service_url |-> ServiceInfo(services, tools[tool_name]).url]
    ELSE [found |-> TRUE, service |-> "general-service",
          service_url |-> "http://aiot-general-service:50053"]

find_tool(tool_name) ==
    IF tool_name \notin DOMAIN tools THEN NotFound
    ELSE LET service_name == tools[tool_name] IN
         IF service_name \notin ServiceNames(services) THEN NotFound
         ELSE LET service_info == ServiceInfo(services, service_name) IN
              IF tool_name \notin Range(service_info.tools) THEN NotFound
              ELSE [found |-> TRUE, service |-> service_name,
                    service_url |-> service_info.url]

EmptyRegistry == [services |-> <<>>, tools |-> <<>>]

\* the registry after initialize_mcp_services()
BootstrapRegistry ==
    LET r0 == EmptyRegistry
        r1 == register_service(r0, "general-service",
                               "http://aiot-general-service:50053", GeneralServiceTools)
        r2 == register_service(r1, "drone-service",
                               "http://aiot-drone-service:50052", DroneServiceTools)
        r3 == register_service(r2, "rbac-service",
                               "http://aiot-rbac-service:50051", RbacServiceTools)
    IN register_service(r3, "auth-service",
                        "http://aiot-auth-service:50050", AuthServiceTools)

----------------------------------------------------------------------------
(* RedisManager: the MCP result cache *)

JsonDumps(v) == [json |-> v]
JsonLoads(doc) == doc.json

mcp_cache_key(tool_name, args_hash) == <<"mcp_cache", tool_name, args_hash>>

\* client.setex(key, ttl, value): the key lives for ttl seconds
RedisSetex(c, key, ttl, value) ==
    [k \in DOMAIN c \cup {key} |->
        IF k = key THEN [value |-> value, expires |-> now + ttl] ELSE c[k]]

\* client.get(key) finds the key unless it was never set or its TTL has run out
RedisHas(c, key) == key \in DOMAIN c /\ now < c[key].expires

\* a variant that stores the entry with the conversation TTL of 24 hours
cache_mcp_result_day(c, tool_name, args_hash, result, ttl) ==
    LET key == mcp_cache_key(tool_name, args_hash)
        cache_data == [result |-> result, cached_at |-> now, tool_name |-> tool_name]
    IN RedisSetex(c, key, 24 * 60 * 60, JsonDumps(cache_data))

cache_mcp_result(c, tool_name, args_hash, result, ttl) ==
    LET key == mcp_cache_key(tool_name, args_hash)
        ttl_used == IF ttl = 0 THEN TTL_MCP_CACHE ELSE ttl
        cache_data == [result |-> result, cached_at |-> now, tool_name |-> tool_name]
    IN RedisSetex(c, key, ttl_used, JsonDumps(cache_data))

get_cached_mcp_result(c, tool_name, args_hash) ==
    LET key == mcp_cache_key(tool_name, args_hash)
    IN IF RedisHas(c, key) THEN JsonLoads(c[key].value).result ELSE None

----------------------------------------------------------------------------
(* MCPServiceClient *)

service_endpoints ==
    [s \in {"general-service", "rbac-service", "drone-service"} |->
        CASE s = "general-service" ->
               [http_url |-> "http://aiot-general-service:3053", grpc_port |-> 50053]
          [] s = "rbac-service" ->
               [http_url |-> "http://aiot-rbac-service:3051", grpc_port |-> 50051]
          [] s = "drone-service" ->
               [http_url |-> "http://aiot-drone-service:3052", grpc_port |-> 50052]]

\* str.startswith on the tool names of the model: the name up to and
\* including its first underscore
NamePrefix(tool_name) ==
    CASE tool_name \in {"get_user_preferences", "get_user_info", "get_current_user"} -> "get_"
      [] tool_name \in {"check_user_permission"} -> "check_"
      [] tool_name \in {"list_users", "list_roles"} -> "list_"
      [] tool_name \in {"update_user_preference"} -> "update_"
      [] OTHER -> "other_"

startswith(tool_name, prefix) == NamePrefix(tool_name) = prefix

\* a variant that hashes the pairs in insertion order
generate_args_hash_unsorted(arguments) == arguments.items

\* str(sorted(arguments.items())) and its md5 digest, taken to be injective:
\* the hash is modelled by the sorted list of pairs it is computed from
generate_args_hash(arguments) == Sorted(arguments.items)

\* a variant that never reports a hit
check_cache_off(c, tool_name, args_hash, fault) == None

\* a variant whose handler hands the failure back as a value
check_cache_surfaces(c, tool_name, args_hash, fault) ==
    IF fault THEN ResultDict(FALSE, "cache error", <<>>)
    ELSE get_cached_mcp_result(c, tool_name, args_hash)

\* _check_cache: a failing lookup is logged and reads as a miss
check_cache(c, tool_name, args_hash, fault) ==
    IF fault THEN None
    ELSE LET cached_result == get_cached_mcp_result(c, tool_name, args_hash)
         IN IF Truthy(cached_result) THEN cached_result ELSE None

\* a variant of _cache_result that stores the results of get_ and check_
\* tools only
cache_result_queries_only(c, tool_name, args_hash, result, ttl, fault) ==
    IF fault \/ ~(startswith(tool_name, "get_") \/ startswith(tool_name, "check_"))
    THEN c
    ELSE cache_mcp_result(c, tool_name, args_hash, result, ttl)

\* _cache_result: a failing write is logged and dropped
cache_result(c, tool_name, args_hash, result, ttl, fault) ==
    IF fault THEN c ELSE cache_mcp_result(c, tool_name, args_hash, result, ttl)

\* _log_tool_call -> postgres_manager.log_mcp_tool_call: one INSERT; a
\* failing INSERT is logged and dropped.  call_id stands for the uuid4.
log_tool_call(a, call_id, tool_name, service_name, success, error_message, fault) ==
    IF fault THEN a
    ELSE Append(a, [call_id |-> call_id, tool_name |-> tool_name,
                    service_name |-> service_name, success |-> success,
                    failed |-> error_message # "None"])

Returned(result) == [raised |-> FALSE, result |-> result]
Raises == [raised |-> TRUE, result |-> None]

HttpOutcomes == {"200_success", "200_list", "status", "timeout", "exception"}
GrpcOutcomes == {"stub", "rpc_error", "exception"}

call_via_http(service_name, tool_name, arguments, out) ==
    IF service_name \notin DOMAIN service_endpoints THEN Raises
    ELSE CASE out = "200_success" -> Returned(ResultDict(TRUE, "None", <<"http", tool_name>>))
           [] out = "200_list" -> Returned(ResultList)
           [] out = "status" -> Returned(ResultDict(FALSE, "HTTP status", <<>>))
           [] out = "timeout" -> Returned(ResultDict(FALSE, "HTTP timeout", <<>>))
           [] OTHER -> Returned(ResultDict(FALSE, "HTTP call exception", <<>>))

call_general_service_grpc(tool_name, arguments) ==
    IF tool_name = "get_user_preferences" /\ DictGet(arguments, "userId") \notin {"None", ""}
    THEN ResultDict(TRUE, "None", <<"preferences", DictGet(arguments, "userId")>>)
    ELSE ResultDict(FALSE, "Tool not implemented", <<>>)

call_rbac_service_grpc(tool_name, arguments) ==
    ResultDict(FALSE, "RBAC gRPC not implemented yet", <<>>)

call_drone_service_grpc(tool_name, arguments) ==
    ResultDict(FALSE, "Drone gRPC not implemented yet", <<>>)

call_via_grpc(service_name, tool_name, arguments, out) ==
    IF service_name \notin DOMAIN service_endpoints THEN Raises
    ELSE CASE out = "rpc_error" -> Returned(ResultDict(FALSE, "gRPC error", <<>>))
           [] out = "exception" -> Returned(ResultDict(FALSE, "gRPC call exception", <<>>))
           [] OTHER ->
                CASE service_name = "general-service" ->
                       Returned(call_general_service_grpc(tool_name, arguments))
                  [] service_name = "rbac-service" ->
                       Returned(call_rbac_service_grpc(tool_name, arguments))
                  [] service_name = "drone-service" ->
                       Returned(call_drone_service_grpc(tool_name, arguments))
                  [] OTHER -> Returned(ResultDict(FALSE, "gRPC call exception", <<>>))

\* what call_service_tool hands back: the returned dict (key "cached" is
\* "True", "False" or "absent"; key "error" is the message or "absent"), or
\* the exception it lets through
ReturnValue(success, result, cached, error, service_name, tool_name) ==
    [success |-> success, result |-> result, cached |-> cached, error |-> error,
     service |-> service_name, tool |-> tool_name]
NoReturn == ReturnValue(FALSE, None, "absent", "absent", "None", "None")

\* the environment of one invocation: which store operations fail, and what
\* the transport meets
Environment(getFault, setFault, logFault, out) ==
    [getFault |-> getFault, setFault |-> setFault, logFault |-> logFault, out |-> out,
     sumFault |-> FALSE]

\* call_service_tool(service_name, tool_name, arguments, ...) run on cache c
\* and audit table a, as the invocation number call_id, in environment env
call_service_tool(c, a, call_id, service_name, tool_name, arguments, env) ==
    IF arguments.kind # "dict"
    THEN \* arguments.items() raises AttributeError before the try block
         [raised |-> TRUE, ret |-> NoReturn, cache |-> c, audit |-> a,
          lookup |-> "none", wrote |-> "none", logged |-> "none",
          transport |-> "none", sent |-> FALSE]
    ELSE
    LET args_hash == generate_args_hash(arguments)
        cached_result == check_cache(c, tool_name, args_hash, env.getFault)
        lookup == IF env.getFault THEN "fault"
                  ELSE IF Truthy(cached_result) THEN "hit" ELSE "miss"
    IN
    IF Truthy(cached_result)
    THEN [raised |-> FALSE,
          ret |-> ReturnValue(TRUE, cached_result, "True", "absent",
                              service_name, tool_name),
          cache |-> c,
          audit |-> log_tool_call(a, call_id, tool_name, service_name,
                                  TRUE, "None", env.logFault),
          lookup |-> lookup, wrote |-> "none",
          logged |-> IF env.logFault THEN "fault" ELSE "ok",
          transport |-> "none", sent |-> FALSE]
    ELSE
    LET use_grpc == startswith(tool_name, "get_") \/ startswith(tool_name, "check_")
        called == IF use_grpc
                  THEN call_via_grpc(service_name, tool_name, arguments, env.out)
                  ELSE call_via_http(service_name, tool_name, arguments, env.out)
        result == called.result
        transport == IF use_grpc THEN "rpc" ELSE "http"
    IN
    IF called.raised \/ result.kind # "dict"
    THEN \* ValueError of the transport, or AttributeError of result.get
         [raised |-> FALSE,
          ret |-> ReturnValue(FALSE, None, "absent",
                              IF called.raised THEN "Unknown service"
                              ELSE "object has no attribute get",
                              service_name, tool_name),
          cache |-> c,
          audit |-> log_tool_call(a, call_id, tool_name, service_name, FALSE,
                                  IF called.raised THEN "Unknown service"
                                  ELSE "object has no attribute get",
                                  env.logFault),
          lookup |-> lookup, wrote |-> "none",
          logged |-> IF env.logFault THEN "fault" ELSE "ok",
          transport |-> transport, sent |-> ~called.raised]
    ELSE [raised |-> FALSE,
          ret |-> ReturnValue(ResultSuccess(result), result, "False", "absent",
                              service_name, tool_name),
          cache |-> IF ResultSuccess(result)
                    THEN cache_result(c, tool_name, args_hash, result,
                                      DefaultTtl, env.setFault)
                    ELSE c,
          audit |-> log_tool_call(a, call_id, tool_name, service_name,
                                  ResultSuccess(result), result.error, env.logFault),
          lookup |-> lookup,
          wrote |-> IF ~ResultSuccess(result) THEN "none"
                    ELSE IF env.setFault THEN "fault" ELSE "ok",
          logged |-> IF env.logFault THEN "fault" ELSE "ok",
          transport |-> transport, sent |-> TRUE]

----------------------------------------------------------------------------
(* NaturalLanguageQueryProcessor *)

\* The value under the key 'tool_call' of the parsed JSON object: a mapping
\* with 'name' and 'arguments' (kind "dict"), the empty mapping, a string,
\* or None when the key is missing or null
ToolCall(kind, name, arguments) == [kind |-> kind, name |-> name, arguments |-> arguments]
NoToolCall == ToolCall("None", "None", ArgsEmpty)

\* A completion text, by what _parse_tool_call looks at: whether it contains
\* the substring 'tool_call', and what the span from its first '{' to its
\* last '}' is: missing ("none"), not JSON ("invalid") or a JSON object
Text(id, mention, span, tool_call) ==
    [id |-> id, mention |-> mention, span |-> span, tool_call |-> tool_call]
NoText == Text("absent", FALSE, "none", NoToolCall)
SummaryText == Text("summary", FALSE, "none", NoToolCall)

PlainText == Text("completion", FALSE, "none", NoToolCall)
MentionText == Text("completion", TRUE, "none", NoToolCall)
\* a tool_call object followed by prose with a second pair of braces: the
\* greedy span runs from the first '{' to the last '}' and is not JSON
TwoObjectsText ==
    Text("completion", TRUE, "invalid", ToolCall("dict", "get_user_preferences", ArgsUT))
CallText(name, arguments) ==
    Text("completion", TRUE, "object", ToolCall("dict", name, arguments))
\* a JSON object whose 'tool_call' is a string, not a mapping
StrCallText ==
    Text("completion", TRUE, "object", ToolCall("str", "None", ArgsEmpty))
\* the first completion call raises instead of returning a text
FailedCompletion == Text("raises", FALSE, "none", NoToolCall)

\* _parse_tool_call: json.loads of the greedy span, then data.get('tool_call');
\* None when there is no span or json.loads raises
parse_tool_call(response) ==
    IF ~response.mention THEN NoToolCall
    ELSE IF response.span # "object" THEN NoToolCall
    ELSE response.tool_call

\* a variant that takes every parsed value for a tool call
AlwaysToolCall(tc) == TRUE

\* bool(tool_call_result)
TruthyToolCall(tc) == tc.kind \in {"dict", "str"}

\* _execute_tool_call: raises (HTTPException, AttributeError, or the
\* NameError of its own handler: this module defines no logger), or returns
\* the dispatch result; d is the call_service_tool invocation, if one is made
NoDispatch(c, a) ==
    [raised |-> TRUE, ret |-> NoReturn, cache |-> c, audit |-> a,
     lookup |-> "none", wrote |-> "none", logged |-> "none",
     transport |-> "none", sent |-> FALSE]

execute_tool_call(c, a, call_id, tool_call, env) ==
    IF tool_call.kind # "dict"
    THEN [raised |-> TRUE, error |-> "has no attribute get",
          dispatched |-> FALSE, service |-> "None", d |-> NoDispatch(c, a)]
    ELSE
    LET tool_name == tool_call.name
        arguments == tool_call.arguments
        tool_info == find_tool(tool_name)
    IN
    IF ~tool_info.found
    THEN [raised |-> TRUE, error |-> "tool does not exist",
          dispatched |-> FALSE, service |-> "None", d |-> NoDispatch(c, a)]
    ELSE
    LET d == call_service_tool(c, a, call_id, tool_info.service, tool_name,
                               arguments, env)
    IN [raised |-> d.raised,
        error |-> IF d.raised THEN "name logger is not defined" ELSE "absent",
        dispatched |-> TRUE, service |-> tool_info.service, d |-> d]

\* a variant that reports the success of the dispatch as its own
QueryResult_of_dispatch(success, response, tool_used, tool_result, error) ==
    [success |-> success /\ (tool_used = "absent" \/ tool_result.success),
     response |-> response, tool_used |-> tool_used,
     tool_result |-> tool_result, error |-> error]

\* what process_query returns
QueryResult(success, response, tool_used, tool_result, error) ==
    [success |-> success, response |-> response, tool_used |-> tool_used,
     tool_result |-> tool_result, error |-> error]

\* a variant of the handler that lets the exception through
handle_exception_reraise(error) ==
    [raised |-> TRUE, caught |-> FALSE,
     ret |-> QueryResult(FALSE, NoText, "absent", NoReturn, "absent")]

\* process_query's "except Exception as e": the exception becomes a result
\* with success False and the message
handle_exception(error) ==
    [raised |-> FALSE, caught |-> TRUE,
     ret |-> QueryResult(FALSE, NoText, "absent", NoReturn, error)]

\* process_query with the outcome of the first completion call given: the
\* result, whether an exception left the function or was caught in it, the
\* number of completion calls made, and the dispatch it caused
process_query(c, a, call_id, completion, env) ==
    IF completion.id = "raises"
    THEN LET h == handle_exception("completion failed")
         IN [ret |-> h.ret, raised |-> h.raised, caught |-> h.caught,
             llm_calls |-> 1, dispatched |-> FALSE, service |-> "None",
             d |-> NoDispatch(c, a)]
    ELSE
    LET tool_call_result == parse_tool_call(completion)
    IN
    IF ~TruthyToolCall(tool_call_result)
    THEN [ret |-> QueryResult(TRUE, completion, "absent", NoReturn, "absent"),
          raised |-> FALSE, caught |-> FALSE,
          llm_calls |-> 1, dispatched |-> FALSE, service |-> "None",
          d |-> NoDispatch(c, a)]
    ELSE
    LET x == execute_tool_call(c, a, call_id, tool_call_result, env)
    IN
    IF x.raised
    THEN LET h == handle_exception(x.error)
         IN [ret |-> h.ret, raised |-> h.raised, caught |-> h.caught,
             llm_calls |-> 1, dispatched |-> x.dispatched, service |-> x.service,
             d |-> x.d]
    ELSE IF env.sumFault
    THEN \* _generate_final_response: the second completion call raises
         LET h == handle_exception("completion failed")
         IN [ret |-> h.ret, raised |-> h.raised, caught |-> h.caught,
             llm_calls |-> 2, dispatched |-> TRUE, service |-> x.service,
             d |-> x.d]
    ELSE [ret |-> QueryResult(TRUE, SummaryText, tool_call_result.name,
                              x.d.ret, "absent"),
          raised |-> FALSE, caught |-> FALSE,
          llm_calls |-> 2, dispatched |-> TRUE, service |-> x.service,
          d |-> x.d]

\* result.get(key) on the dict process_query returns: None for a key the
\* dict does not have
ResultGet(result, key) == IF key \in DOMAIN result THEN result[key] ELSE "None"

\* the data of the mcp_response envelope and the fields of the REST
\* response, built from a process_query result with success = True
mcp_response_data(result) ==
    [response |-> result.response,
     tool_used |-> ResultGet(result, "tool_used"),
     service_called |-> ResultGet(result, "service_called"),
     raw_result |-> ResultGet(result, "tool_result")]

natural_language_query_response(result) ==
    [success |-> TRUE,
     response |-> result.response,
     tool_used |-> ResultGet(result, "tool_used"),
     service_called |-> ResultGet(result, "service_called"),
     raw_result |-> ResultGet(result, "tool_result")]

----------------------------------------------------------------------------
(* The state machine *)

\* the tool calls the completion capability asks for
QueryCalls ==
    { <<"get_user_preferences", ArgsUT>>, <<"get_user_preferences", ArgsTU>>,
      <<"get_user_preferences", ArgsStr>>, <<"check_user_permission", ArgsUT>>,
      <<"list_users", ArgsUT>>, <<"update_user_preference", ArgsUT>>,
      <<"get_current_user", ArgsUT>>,
      <<"no_such_tool", ArgsUT>> }

Completions ==
    {PlainText, MentionText, TwoObjectsText, StrCallText, FailedCompletion}
        \cup {CallText(qc[1], qc[2]) : qc \in QueryCalls}

\* The environments that matter to a completion: every combination of store
\* failures and transport outcomes when its tool call reaches the cache
\* lookup of call_service_tool, and one environment when it does not
Nominal == Environment(FALSE, FALSE, FALSE, "200_success")
\* the tool call goes well and the summarising completion call raises
SummaryFails == [Nominal EXCEPT !.sumFault = TRUE]

Environments(completion) ==
    LET tc == parse_tool_call(completion)
    IN IF tc.kind = "dict" /\ find_tool(tc.name).found /\ tc.arguments.kind = "dict"
       THEN {Environment(g, s, l, out) :
                g \in BOOLEAN, s \in BOOLEAN, l \in BOOLEAN,
                out \in IF startswith(tc.name, "get_") \/ startswith(tc.name, "check_")
                        THEN GrpcOutcomes ELSE HttpOutcomes}
            \cup {SummaryFails}
       ELSE {Nominal}

\* the record of one process_query invocation: its completion text, its
\* result, and the call_service_tool invocation it made, if any
QueryRecord(n, completion, out, q) ==
    [n |-> n, completion |-> completion, at |-> now,
     ret |-> q.ret, query_raised |-> q.raised, caught |-> q.caught,
     llm_calls |-> q.llm_calls, dispatched |-> q.dispatched,
     service |-> q.service,
     tool |-> parse_tool_call(completion).name,
     arguments |-> parse_tool_call(completion).arguments,
     out |-> IF q.dispatched /\ q.d.sent THEN out ELSE "none",
     raised |-> q.d.raised, call |-> q.d.ret, lookup |-> q.d.lookup,
     wrote |-> q.d.wrote, logged |-> q.d.logged, transport |-> q.d.transport,
     sent |-> q.d.sent]

NoQuery ==
    QueryRecord(0, NoText, "none",
                [ret |-> QueryResult(FALSE, NoText, "absent", NoReturn, "absent"),
                 raised |-> FALSE, caught |-> FALSE,
                 llm_calls |-> 0, dispatched |-> FALSE, service |-> "None",
                 d |-> NoDispatch(<<>>, <<>>)])

NoHashInput == [tool |-> "None", a1 |-> ArgsEmpty, a2 |-> ArgsEmpty]

NoRegistration == [n |-> 0, service |-> "None", url |-> "None", tools |-> <<>>]

\* the connections of the model and the caller ids a connection may carry
\* ("None": no user_id was supplied)
ConnectionIds == {"c1", "c2"}
UserIds == {"None", "u1"}

\* a connection before handle_connection is called for it
NewConnection ==
    [pc |-> "new", user_id |-> "None", closed |-> FALSE, send_failed |-> FALSE,
     received |-> 0, failed_reads |-> 0, message |-> 0,
     msg |-> [type |-> "none", detail |-> "none"], plan |-> <<>>]

\* LLMWebSocketHandler after construction: a ConnectionManager with no
\* connection, and the query processor that startup built
\* the dedicated endpoints of main.py
Endpoints == {"chat", "stream"}

\* a dedicated endpoint before a client connects to it
NewEndpoint ==
    [accepted |-> FALSE, user_id |-> "None", received |-> 0,
     msg |-> [type |-> "none", detail |-> "none"], box |-> <<>>]

\* no broadcast_to_user call has been made
NoBroadcast == [pc |-> "idle", user_id |-> "None", pending |-> <<>>, calls |-> 0]

\* the tasks that call append_conversation_message, before they do
Appenders == {"a1", "a2", "a3"}
IdleAppender ==
    [pc |-> "idle", conversation_id |-> "None",
     cached_messages |-> [found |-> FALSE, messages |-> <<>>]]

\* nothing has been stored, no client is connected, no call is in progress
NoTasks ==
    /\ messages = <<>>
    /\ dedicated = [e \in Endpoints |-> NewEndpoint]
    /\ broadcast = NoBroadcast
    /\ appender = [t \in Appenders |-> IdleAppender]

NoConnections ==
    /\ mcp_processor = TRUE
    /\ active_connections = {}
    /\ user_sessions = <<>>
    /\ conn = [c \in ConnectionIds |-> NewConnection]
    /\ outbox = [c \in ConnectionIds |-> <<>>]
    /\ NoTasks

\* the processor is constructed after initialize_mcp_services() has run
Init ==
    /\ services = BootstrapRegistry.services
    /\ tools = BootstrapRegistry.tools
    /\ cache = <<>>
    /\ audit = <<>>
    /\ now = 0
    /\ queries = 0
    /\ last = [NoQuery EXCEPT !.at = 0]
    /\ h_in = NoHashInput
    /\ h_out = <<>>
    /\ registered = NoRegistration
    /\ NoConnections

\* a caller awaits process_query(user_query, ...); the completion capability
\* answers the first prompt with the text completion
ProcessQuery ==
    /\ queries < MaxQueries
    /\ \E completion \in Completions :
       \E env \in Environments(completion) :
        LET q == process_query(cache, audit, queries + 1, completion, env)
        IN /\ cache' = q.d.cache
           /\ audit' = q.d.audit
           /\ queries' = queries + 1
           /\ last' = QueryRecord(queries + 1, completion, env.out, q)
    /\ UNCHANGED <<services, tools, now, h_in, h_out, registered>>
    /\ UNCHANGED wsVars

\* time passes
Tick ==
    /\ now + TickStep <= MaxNow
    /\ now' = now + TickStep
    /\ UNCHANGED <<services, tools, cache, audit, queries, last, h_in, h_out, registered>>
    /\ UNCHANGED wsVars

Next == ProcessQuery \/ Tick

Spec == Init /\ [][Next]_vars

----------------------------------------------------------------------------
(* The cache key as a function: a specification that draws a tool name and  *)
(* two argument mappings and computes the key of each                       *)

HashKeys == {"limit", "theme", "userId"}
HashValues == {"42", "dark"}
HashTools == {"get_user_preferences", "update_user_preference"}

\* the lists of at most MaxArgs pairs with pairwise different keys
PairLists ==
    UNION { { s \in [1..n -> HashKeys \X HashValues] :
                \A i, j \in 1..n : i # j => s[i][1] # s[j][1] } : n \in 0..MaxArgs }

HashArguments == {Dict(s) : s \in PairLists}

\* the Redis key of (tool_name, arguments) as call_service_tool computes it
cache_key(tool_name, arguments) ==
    mcp_cache_key(tool_name, generate_args_hash(arguments))

InitHash ==
    /\ services = BootstrapRegistry.services
    /\ tools = BootstrapRegistry.tools
    /\ cache = <<>>
    /\ audit = <<>>
    /\ now = 0
    /\ queries = 0
    /\ last = [NoQuery EXCEPT !.at = 0]
    /\ h_in \in [tool : HashTools, a1 : HashArguments, a2 : HashArguments]
    /\ h_out = <<>>
    /\ registered = NoRegistration
    /\ NoConnections

ComputeKeys ==
    /\ h_out = <<>>
    /\ h_out' = <<cache_key(h_in.tool, h_in.a1), cache_key(h_in.tool, h_in.a2)>>
    /\ UNCHANGED <<services, tools, cache, audit, now, queries, last, h_in, registered>>
    /\ UNCHANGED wsVars

NextHash == ComputeKeys

SpecHash == InitHash /\ [][NextHash]_vars

----------------------------------------------------------------------------
(* The registry under arbitrary registrations: a specification that starts   *)
(* from the empty registry and calls register_service                        *)

MaxRegistrations == 3

RegServices == {"svc-a", "svc-b"}
RegUrl(service_name) == IF service_name = "svc-a" THEN "http://svc-a" ELSE "http://svc-b"
RegToolLists ==
    {<<>>, <<"ping">>, <<"pong">>, <<"ping", "pong">>, <<"pong", "ping">>,
     <<"ping", "ping">>}

\* get_available_tools(): every tool of every service, in dict order, each
\* annotated with its service
RECURSIVE get_available_tools(_)
get_available_tools(svcs) ==
    IF svcs = <<>> THEN <<>>
    ELSE LET service_info == svcs[Len(svcs)]
         IN get_available_tools(SubSeq(svcs, 1, Len(svcs) - 1))
            \o [i \in DOMAIN service_info.tools |->
                    [name |-> service_info.tools[i], service |-> service_info.name]]

InitRegistry ==
    /\ services = EmptyRegistry.services
    /\ tools = EmptyRegistry.tools
    /\ cache = <<>>
    /\ audit = <<>>
    /\ now = 0
    /\ queries = 0
    /\ last = [NoQuery EXCEPT !.at = 0]
    /\ h_in = NoHashInput
    /\ h_out = <<>>
    /\ registered = NoRegistration
    /\ NoConnections

RegisterService ==
    /\ registered.n < MaxRegistrations
    /\ \E service_name \in RegServices, tool_list \in RegToolLists :
        LET reg == register_service([services |-> services, tools |-> tools],
                                    service_name, RegUrl(service_name), tool_list)
        IN /\ services' = reg.services
           /\ tools' = reg.tools
           /\ registered' = [n |-> registered.n + 1, service |-> service_name,
                             url |-> RegUrl(service_name), tools |-> tool_list]
    /\ UNCHANGED <<cache, audit, now, queries, last, h_in, h_out>>
    /\ UNCHANGED wsVars

NextRegistry == RegisterService

SpecRegistry == InitRegistry /\ [][NextRegistry]_vars

----------------------------------------------------------------------------
(* ConnectionManager and LLMWebSocketHandler: a specification of the         *)
(* connections served by handle_connection.  A connection's handler is at    *)
(* pc "new" (not called yet), "receive" (awaiting receive_text), "stream"    *)
(* (inside the loop of _handle_stream, at its pacing delay) or "ended".      *)

MaxMessages == 2
MaxChunks == 2

NoData ==
    [response |-> NoText, tool_used |-> "None", service_called |-> "None",
     raw_result |-> NoReturn]

\* WebSocketResponse(type=..., success=..., message_id=..., data=...);
\* message_id 0 stands for None
WebSocketResponse(type, success, message_id, data) ==
    [type |-> type, success |-> success, message_id |-> message_id, data |-> data]

\* send_message(connection_id, message): the outbox after the call.  send_text
\* is attempted whenever the id is registered; late marks an attempt made
\* after the peer has disconnected, which fails and is only logged
send_message(box, connection_id, message) ==
    IF connection_id \in active_connections
    THEN Append(box, [type |-> message.type, success |-> message.success,
                      message_id |-> message.message_id, data |-> message.data,
                      late |-> conn[connection_id].closed])
    ELSE box

\* connect(websocket, connection_id, user_id): the fan-out index afterwards
connect(sessions, connection_id, user_id) ==
    IF user_id = "None" THEN sessions
    ELSE [u \in DOMAIN sessions \cup {user_id} |->
            IF u = user_id
            THEN (IF u \in DOMAIN sessions THEN sessions[u] ELSE {}) \cup {connection_id}
            ELSE sessions[u]]

\* a variant of disconnect that leaves the user's entry in place when its
\* last connection goes
disconnect_keep_entry(sessions, connection_id, user_id) ==
    IF user_id = "None" \/ user_id \notin DOMAIN sessions THEN sessions
    ELSE [sessions EXCEPT ![user_id] = @ \ {connection_id}]

\* disconnect(connection_id, user_id): the fan-out index afterwards
disconnect(sessions, connection_id, user_id) ==
    IF user_id = "None" \/ user_id \notin DOMAIN sessions THEN sessions
    ELSE LET rest == sessions[user_id] \ {connection_id}
         IN IF rest = {}
            THEN [u \in DOMAIN sessions \ {user_id} |-> sessions[u]]
            ELSE [sessions EXCEPT ![user_id] = rest]

\* the inbound texts a peer sends, by how the read loop and the handlers
\* take them: not JSON or not a WebSocketMessage; JSON that is not an object
\* (WebSocketMessage(**message_data) raises TypeError); an unknown type; generate
\* and conversational with the outcome of the ai_service call; mcp_query
\* with the kind of data['query']; stream with the outcome of generation
NoMessage == [type |-> "none", detail |-> "none"]
Malformed == [type |-> "malformed", detail |-> "none"]
NotMapping == [type |-> "not_mapping", detail |-> "none"]
PlainMessages ==
    {Malformed, NotMapping, [type |-> "unsupported", detail |-> "none"]}
        \cup [type : {"generate", "conversational"}, detail : {"ok", "failed", "raises"}]
        \cup [type : {"mcp_query"}, detail : {"text", "blank", "not_text"}]
StreamMessages == [type : {"stream"}, detail : {"generated", "fails"}]

\* the completions the query processor meets when it serves a connection
WsCompletions ==
    {PlainText, CallText("get_user_preferences", ArgsUT), CallText("no_such_tool", ArgsUT)}

\* stream_generate(prompt): one chunk per word, or the single chunk that
\* carries the error when generation raises
stream_generate(detail, words) ==
    IF detail = "fails" THEN <<"error_chunk">> ELSE [i \in 1..words |-> "word"]

\* _handle_message's except clause, and the error envelopes of the read loop
error_response(message_id) == WebSocketResponse("error", FALSE, message_id, NoData)

\* _handle_generate and _handle_conversational: the outbox afterwards
handle_generate(box, connection_id, message_id, detail) ==
    IF detail = "raises"
    THEN send_message(box, connection_id, error_response(message_id))
    ELSE send_message(box, connection_id,
                      WebSocketResponse("response", detail = "ok", message_id, NoData))

\* the attributes of postgres_manager: the methods of PostgreSQLManager
PostgreSQLManagerMethods ==
    {"initialize", "close", "get_connection", "create_conversation", "add_message",
     "get_conversation_history", "get_user_conversations", "log_mcp_tool_call",
     "get_mcp_tool_usage_stats", "get_user_llm_preferences",
     "upsert_user_llm_preferences", "create_knowledge_document",
     "update_document_status", "update_daily_usage_stats", "health_check",
     "get_table_counts"}

\* hasattr(postgres_manager, name)
hasattr_postgres_manager(name) == name \in PostgreSQLManagerMethods

\* the table messages after _handle_conversational: the user turn is stored
\* before generation and the assistant turn after a successful one, each
\* only for a known user and only if the manager has a create_message
save_turns(table, key, user_id, detail) ==
    LET stores == user_id # "None" /\ hasattr_postgres_manager("create_message")
        human == IF stores THEN Append(table, [role |-> "human", of |-> key])
                 ELSE table
    IN IF stores /\ detail = "ok"
       THEN Append(human, [role |-> "assistant", of |-> key])
       ELSE human

\* a variant of _handle_mcp_query that announces nothing before the query
handle_mcp_query_silent(box, connection_id, message_id, detail, result) ==
    IF ~mcp_processor \/ detail # "text"
    THEN send_message(box, connection_id, error_response(message_id))
    ELSE send_message(box, connection_id,
            WebSocketResponse("mcp_response", result.success, message_id,
                              IF result.success THEN mcp_response_data(result)
                              ELSE NoData))

\* _handle_mcp_query, given the result process_query returns: the outbox
\* afterwards.  A query that is not a string raises at query.strip() and is
\* answered by _handle_message's except clause
handle_mcp_query(box, connection_id, message_id, detail, result) ==
    IF ~mcp_processor \/ detail # "text"
    THEN send_message(box, connection_id, error_response(message_id))
    ELSE LET processing == send_message(box, connection_id,
                              WebSocketResponse("mcp_processing", TRUE, message_id, NoData))
         IN send_message(processing, connection_id,
               WebSocketResponse("mcp_response", result.success, message_id,
                                 IF result.success THEN mcp_response_data(result)
                                 ELSE NoData))

\* does _handle_mcp_query reach process_query
QueryIsProcessed(m) == m.type = "mcp_query" /\ m.detail = "text" /\ mcp_processor

\* the connection's record after its send attempts in this step
AfterSends(k, box) ==
    [k EXCEPT !.send_failed = k.send_failed \/ (k.closed /\ box # <<>>)]

\* the number of messages read so far, over all connections
RECURSIVE SumReceived(_)
SumReceived(ids) ==
    IF ids = {} THEN 0
    ELSE LET c == CHOOSE x \in ids : TRUE
         IN conn[c].received + SumReceived(ids \ {c})

MessagesRead == SumReceived(ConnectionIds)

InitWs ==
    /\ services = BootstrapRegistry.services
    /\ tools = BootstrapRegistry.tools
    /\ cache = <<>>
    /\ audit = <<>>
    /\ now = 0
    /\ queries = 0
    /\ last = [NoQuery EXCEPT !.at = 0]
    /\ h_in = NoHashInput
    /\ h_out = <<>>
    /\ registered = NoRegistration
    /\ mcp_processor \in BOOLEAN
    /\ active_connections = {}
    /\ user_sessions = <<>>
    /\ conn = [c \in ConnectionIds |-> NewConnection]
    /\ outbox = [c \in ConnectionIds |-> <<>>]
    /\ NoTasks

\* handle_connection up to its first receive_text: accept, register, welcome
Connect(c) ==
    /\ conn[c].pc = "new"
    /\ \E user_id \in UserIds :
        /\ active_connections' = active_connections \cup {c}
        /\ user_sessions' = connect(user_sessions, c, user_id)
        /\ conn' = [conn EXCEPT ![c].pc = "receive", ![c].user_id = user_id]
        /\ outbox' = [outbox EXCEPT ![c] =
                Append(@, [type |-> "status", success |-> TRUE, message_id |-> 0,
                           data |-> NoData, late |-> FALSE])]
    /\ UNCHANGED <<messages, dedicated, broadcast, appender>>
    /\ UNCHANGED <<services, tools, cache, audit, now, queries, last, h_in, h_out,
                   registered, mcp_processor>>

\* one turn of the read loop for a message that is answered without a pause.
\* conn[c].message is the message_id of the loop's local variable message
\* (0: not bound yet), which keeps the message of an earlier turn until the
\* next one passes validation; the loop's "except Exception" reads it
ReceiveMessage(c) ==
    /\ conn[c].pc = "receive" /\ ~conn[c].closed
    /\ MessagesRead < MaxMessages
    /\ \E m \in PlainMessages, completion \in WsCompletions :
        LET message_id == CASE m = Malformed -> 0
                            [] m = NotMapping -> conn[c].message
                            [] OTHER -> conn[c].received + 1
            q == process_query(cache, audit, queries + 1, completion, Nominal)
            box == CASE m.type \in {"malformed", "not_mapping", "unsupported"} ->
                          send_message(<<>>, c, error_response(message_id))
                     [] m.type \in {"generate", "conversational"} ->
                          handle_generate(<<>>, c, message_id, m.detail)
                     [] OTHER ->
                          handle_mcp_query(<<>>, c, message_id, m.detail, q.ret)
        IN /\ (~QueryIsProcessed(m)) => completion = PlainText
           /\ outbox' = [outbox EXCEPT ![c] = box]
           /\ messages' = IF m.type = "conversational"
                          THEN save_turns(messages, <<c, message_id>>,
                                          conn[c].user_id, m.detail)
                          ELSE messages
           /\ conn' = [conn EXCEPT ![c] =
                    AfterSends([@ EXCEPT !.received = @ + 1, !.msg = m,
                                         !.message = IF m \in {Malformed, NotMapping}
                                                      THEN @ ELSE conn[c].received + 1],
                               box)]
           /\ IF QueryIsProcessed(m)
              THEN /\ cache' = q.d.cache
                   /\ audit' = q.d.audit
                   /\ queries' = queries + 1
                   /\ last' = QueryRecord(queries + 1, completion, Nominal.out, q)
              ELSE UNCHANGED <<cache, audit, queries, last>>
    /\ UNCHANGED taskVars
    /\ UNCHANGED <<services, tools, now, h_in, h_out, registered, mcp_processor,
                   active_connections, user_sessions>>

\* a variant of the read loop that starts _handle_stream without awaiting
\* it and goes back to receive_text
ReceiveStream_detached(c) ==
    /\ conn[c].pc = "receive" /\ ~conn[c].closed
    /\ MessagesRead < MaxMessages
    /\ \E m \in StreamMessages, words \in 0..MaxChunks :
        LET box == send_message(<<>>, c,
                       WebSocketResponse("stream_start", TRUE, conn[c].received + 1, NoData))
        IN /\ m.detail = "fails" => words = 0
           /\ outbox' = [outbox EXCEPT ![c] = box]
           /\ conn' = [conn EXCEPT ![c] =
                    AfterSends([@ EXCEPT !.received = @ + 1, !.msg = m,
                                         !.message = conn[c].received + 1,
                                         !.plan = stream_generate(m.detail, words)], box)]
    /\ UNCHANGED <<messages, dedicated, broadcast, appender>>
    /\ UNCHANGED <<services, tools, cache, audit, now, queries, last, h_in, h_out,
                   registered, mcp_processor, active_connections, user_sessions>>

\* a stream message is read: _handle_stream sends stream_start and calls
\* stream_generate
ReceiveStream(c) ==
    /\ conn[c].pc = "receive" /\ ~conn[c].closed
    /\ MessagesRead < MaxMessages
    /\ \E m \in StreamMessages, words \in 0..MaxChunks :
        LET box == send_message(<<>>, c,
                       WebSocketResponse("stream_start", TRUE, conn[c].received + 1, NoData))
        IN /\ m.detail = "fails" => words = 0
           /\ outbox' = [outbox EXCEPT ![c] = box]
           /\ conn' = [conn EXCEPT ![c] =
                    AfterSends([@ EXCEPT !.pc = "stream", !.received = @ + 1, !.msg = m,
                                         !.message = conn[c].received + 1,
                                         !.plan = stream_generate(m.detail, words)], box)]
    /\ UNCHANGED <<messages, dedicated, broadcast, appender>>
    /\ UNCHANGED <<services, tools, cache, audit, now, queries, last, h_in, h_out,
                   registered, mcp_processor, active_connections, user_sessions>>

\* one turn of the for loop of _handle_stream: a chunk is sent, then the
\* delay.  stream_generate catches every exception itself and send_message
\* returns False instead of raising, so the except clause of _handle_stream
\* (stream_error) is not entered
StreamChunk(c) ==
    /\ conn[c].pc = "stream" /\ conn[c].plan # <<>>
    /\ LET box == send_message(outbox[c], c,
                       WebSocketResponse("stream_chunk", TRUE, conn[c].received, NoData))
       IN /\ outbox' = [outbox EXCEPT ![c] = box]
          /\ conn' = [conn EXCEPT ![c] = AfterSends([@ EXCEPT !.plan = Tail(@)], box)]
    /\ UNCHANGED <<messages, dedicated, broadcast, appender>>
    /\ UNCHANGED <<services, tools, cache, audit, now, queries, last, h_in, h_out,
                   registered, mcp_processor, active_connections, user_sessions>>

\* the generator is exhausted: stream_end is sent and the read loop resumes
StreamEnd(c) ==
    /\ conn[c].pc = "stream" /\ conn[c].plan = <<>>
    /\ LET box == send_message(outbox[c], c,
                       WebSocketResponse("stream_end", TRUE, conn[c].received, NoData))
       IN /\ outbox' = [outbox EXCEPT ![c] = box]
          /\ conn' = [conn EXCEPT ![c] = AfterSends([@ EXCEPT !.pc = "receive"], box)]
    /\ UNCHANGED <<messages, dedicated, broadcast, appender>>
    /\ UNCHANGED <<services, tools, cache, audit, now, queries, last, h_in, h_out,
                   registered, mcp_processor, active_connections, user_sessions>>

\* the peer goes away: a transport-level disconnect
Disconnect(c) ==
    /\ conn[c].pc \in {"receive", "stream"} /\ ~conn[c].closed
    /\ conn' = [conn EXCEPT ![c].closed = TRUE]
    /\ UNCHANGED <<messages, dedicated, broadcast, appender>>
    /\ UNCHANGED <<services, tools, cache, audit, now, queries, last, h_in, h_out,
                   registered, mcp_processor, active_connections, user_sessions, outbox>>

\* receive_text raises WebSocketDisconnect: break, then the finally clause
ReceiveDisconnect(c) ==
    /\ conn[c].pc = "receive" /\ conn[c].closed
    /\ active_connections' = active_connections \ {c}
    /\ user_sessions' = disconnect(user_sessions, c, conn[c].user_id)
    /\ conn' = [conn EXCEPT ![c].pc = "ended", ![c].msg = NoMessage]
    /\ outbox' = [outbox EXCEPT ![c] = <<>>]
    /\ UNCHANGED <<messages, dedicated, broadcast, appender>>
    /\ UNCHANGED <<services, tools, cache, audit, now, queries, last, h_in, h_out,
                   registered, mcp_processor>>

\* receive_text raises another exception: once a send has failed on the
\* socket the framework may refuse the read with a RuntimeError.  The loop's
\* "except Exception" sends an error envelope and reads again.  failed_reads
\* counts these turns modulo 2
ReceiveError(c) ==
    /\ conn[c].pc = "receive" /\ conn[c].closed /\ conn[c].send_failed
    /\ LET box == send_message(<<>>, c, error_response(conn[c].message))
       IN /\ outbox' = [outbox EXCEPT ![c] = box]
          /\ conn' = [conn EXCEPT ![c].msg = NoMessage,
                                  ![c].failed_reads = (@ + 1) % 2]
    /\ UNCHANGED <<messages, dedicated, broadcast, appender>>
    /\ UNCHANGED <<services, tools, cache, audit, now, queries, last, h_in, h_out,
                   registered, mcp_processor, active_connections, user_sessions>>

\* the steps handle_connection takes on its own once it can
Handler(c) ==
    StreamChunk(c) \/ StreamEnd(c) \/ ReceiveDisconnect(c) \/ ReceiveError(c)

NextWs ==
    \E c \in ConnectionIds :
        \/ Connect(c)
        \/ ReceiveMessage(c)
        \/ ReceiveStream(c)
        \/ StreamChunk(c)
        \/ StreamEnd(c)
        \/ Disconnect(c)
        \/ ReceiveDisconnect(c)
        \/ ReceiveError(c)

SpecWs == InitWs /\ [][NextWs]_vars

\* the event loop runs every handler that can take a step
SpecWsFair == SpecWs /\ \A c \in ConnectionIds : WF_vars(Handler(c))

----------------------------------------------------------------------------
(* ConnectionManager.broadcast_to_user, called while handle_connection       *)
(* serves its connections.  The call takes a snapshot of the user's          *)
(* connection ids and awaits one send_message per id; the handlers of the    *)
(* connections run between two sends.  Of handle_connection the steps that   *)
(* reach the two indexes are taken: connect at its start, the peer going     *)
(* away, and disconnect in its finally clause; the message handlers only     *)
(* call send_message                                                         *)

MaxBroadcasts == 1

\* list(self.user_sessions[user_id]): the ids of the set in some order
ListOf(ids) ==
    {order \in [1..Cardinality(ids) -> ids] : Range(order) = ids}

\* broadcast_to_user(user_id, message) up to its first send
BroadcastStart ==
    /\ broadcast.pc = "idle"
    /\ broadcast.calls < MaxBroadcasts
    /\ \E user_id \in UserIds \ {"None"} :
       \E order \in ListOf(IF user_id \in DOMAIN user_sessions
                            THEN user_sessions[user_id] ELSE {}) :
          broadcast' = [pc |-> IF order = <<>> THEN "idle" ELSE "sending",
                        user_id |-> user_id, pending |-> order,
                        calls |-> broadcast.calls + 1]
    /\ UNCHANGED <<services, tools, cache, audit, now, queries, last, h_in, h_out,
                   registered, mcp_processor, active_connections, user_sessions,
                   conn, outbox, messages, dedicated, appender>>

\* one turn of the for loop of broadcast_to_user: send_message to the next
\* id of the snapshot, and disconnect(connection_id, user_id) if it fails
BroadcastSend ==
    /\ broadcast.pc = "sending"
    /\ LET connection_id == Head(broadcast.pending)
           box == send_message(outbox[connection_id], connection_id,
                               WebSocketResponse("broadcast", TRUE, 0, NoData))
           sent == connection_id \in active_connections /\ ~conn[connection_id].closed
       IN /\ outbox' = [outbox EXCEPT ![connection_id] = box]
          /\ conn' = [conn EXCEPT ![connection_id] =
                        AfterSends(@, IF connection_id \in active_connections
                                      THEN box ELSE <<>>)]
          /\ active_connections' = IF sent THEN active_connections
                                   ELSE active_connections \ {connection_id}
          /\ user_sessions' = IF sent THEN user_sessions
                              ELSE disconnect(user_sessions, connection_id,
                                              broadcast.user_id)
          /\ broadcast' = [broadcast EXCEPT
                            !.pending = Tail(@),
                            !.pc = IF Tail(broadcast.pending) = <<>>
                                   THEN "idle" ELSE "sending"]
    /\ UNCHANGED <<services, tools, cache, audit, now, queries, last, h_in, h_out,
                   registered, mcp_processor, messages, dedicated, appender>>

NextManager ==
    \/ \E c \in ConnectionIds :
          Connect(c) \/ Disconnect(c) \/ ReceiveDisconnect(c) \/ ReceiveError(c)
    \/ BroadcastStart
    \/ BroadcastSend

SpecManager == InitWs /\ [][NextManager]_vars

----------------------------------------------------------------------------
(* RedisManager: the conversation cache.  Each task of Appenders makes one   *)
(* append_conversation_message call, which awaits a read of the key and      *)
(* then a write of it; the event loop runs the other tasks in between        *)

TTL_CONVERSATION == 86400

ConversationIds == {"default", "conv-1"}

conversation_key(conversation_id) == <<"conversation", conversation_id>>

\* cache_conversation_messages(conversation_id, messages): the store afterwards
cache_conversation_messages(c, conversation_id, message_list) ==
    RedisSetex(c, conversation_key(conversation_id), TTL_CONVERSATION,
               JsonDumps(message_list))

\* get_cached_conversation(conversation_id): the decoded list, or None
\* (found = FALSE) when the key is missing or has expired
get_cached_conversation(c, conversation_id) ==
    IF RedisHas(c, conversation_key(conversation_id))
    THEN [found |-> TRUE,
          messages |-> JsonLoads(c[conversation_key(conversation_id)].value)]
    ELSE [found |-> FALSE, messages |-> <<>>]

\* append_conversation_message up to the return of get_cached_conversation
AppendRead(t) ==
    /\ appender[t].pc = "idle"
    /\ \E conversation_id \in ConversationIds :
        appender' = [appender EXCEPT ![t] =
            [pc |-> "read", conversation_id |-> conversation_id,
             cached_messages |-> get_cached_conversation(cache, conversation_id)]]
    /\ UNCHANGED <<services, tools, cache, audit, now, queries, last, h_in, h_out,
                   registered, mcp_processor, active_connections, user_sessions,
                   conn, outbox, messages, dedicated, broadcast>>

\* the rest of the call: the list that was read, with the task's message
\* appended, or the message alone, is written back
AppendWrite(t) ==
    /\ appender[t].pc = "read"
    /\ LET k == appender[t]
       IN cache' = cache_conversation_messages(cache, k.conversation_id,
                       IF k.cached_messages.found
                       THEN Append(k.cached_messages.messages, t)
                       ELSE <<t>>)
    /\ appender' = [appender EXCEPT ![t].pc = "done"]
    /\ UNCHANGED <<services, tools, audit, now, queries, last, h_in, h_out,
                   registered, mcp_processor, active_connections, user_sessions,
                   conn, outbox, messages, dedicated, broadcast>>

NextConversation == \E t \in Appenders : AppendRead(t) \/ AppendWrite(t)

SpecConversation == Init /\ [][NextConversation]_vars

----------------------------------------------------------------------------
(* The dedicated endpoints /ws/chat and /ws/stream of main.py: each accepts  *)
(* its socket itself and hands every inbound JSON value to one handler of    *)
(* LLMWebSocketHandler, under a connection id of its own making              *)

\* connection_id = f"chat_{user_id or 'anonymous'}", f"stream_{...}"
DedicatedId(e, user_id) ==
    CASE e = "chat" /\ user_id = "None" -> "chat_anonymous"
      [] e = "chat" -> "chat_u1"
      [] e = "stream" /\ user_id = "None" -> "stream_anonymous"
      [] OTHER -> "stream_u1"

\* the inbound JSON values of a dedicated endpoint: an object, with the
\* outcome of generation, or a value that is not an object and fails the
\* validation of WebSocketMessage(data=...)
ChatInputs == [type : {"conversational"}, detail : {"ok", "failed", "raises", "not_object"}]
StreamInputs == [type : {"stream"}, detail : {"generated", "fails", "not_object"}]

\* websocket.send_json(...) in the endpoint's own "except Exception"
send_json(type) ==
    <<[type |-> type, success |-> FALSE, message_id |-> 0, data |-> NoData,
       late |-> FALSE]>>

\* send_message for each envelope in turn
RECURSIVE send_each(_, _, _)
send_each(box, connection_id, envelopes) ==
    IF envelopes = <<>> THEN box
    ELSE send_each(send_message(box, connection_id, Head(envelopes)),
                   connection_id, Tail(envelopes))

\* _handle_stream from its first to its last send: what reaches the socket
handle_stream(box, connection_id, message_id, plan) ==
    send_each(box, connection_id,
              <<WebSocketResponse("stream_start", TRUE, message_id, NoData)>>
              \o [i \in DOMAIN plan |->
                      WebSocketResponse("stream_chunk", TRUE, message_id, NoData)]
              \o <<WebSocketResponse("stream_end", TRUE, message_id, NoData)>>)

\* a client connects to a dedicated endpoint: websocket.accept()
DedicatedAccept(e) ==
    /\ ~dedicated[e].accepted
    /\ \E user_id \in UserIds :
        dedicated' = [dedicated EXCEPT ![e].accepted = TRUE, ![e].user_id = user_id]
    /\ UNCHANGED <<services, tools, cache, audit, now, queries, last, h_in, h_out,
                   registered, mcp_processor, active_connections, user_sessions,
                   conn, outbox, messages, broadcast, appender>>

\* one turn of the loop of chat_websocket_endpoint
ChatMessage ==
    /\ dedicated["chat"].accepted
    /\ dedicated["chat"].received < MaxMessages
    /\ \E m \in ChatInputs :
        LET k == dedicated["chat"]
            connection_id == DedicatedId("chat", k.user_id)
            box == IF m.detail \in {"raises", "not_object"}
                   THEN send_json("error")
                   ELSE handle_generate(<<>>, connection_id, 0, m.detail)
        IN /\ dedicated' = [dedicated EXCEPT !["chat"] =
                    [k EXCEPT !.received = @ + 1, !.msg = m, !.box = box]]
           /\ messages' = IF m.detail = "not_object" THEN messages
                          ELSE save_turns(messages, <<connection_id, k.received + 1>>,
                                          k.user_id, m.detail)
    /\ UNCHANGED <<services, tools, cache, audit, now, queries, last, h_in, h_out,
                   registered, mcp_processor, active_connections, user_sessions,
                   conn, outbox, broadcast, appender>>

\* one turn of the loop of stream_websocket_endpoint
StreamMessage ==
    /\ dedicated["stream"].accepted
    /\ dedicated["stream"].received < MaxMessages
    /\ \E m \in StreamInputs, words \in 0..MaxChunks :
        LET k == dedicated["stream"]
            connection_id == DedicatedId("stream", k.user_id)
            box == IF m.detail = "not_object"
                   THEN send_json("stream_error")
                   ELSE handle_stream(<<>>, connection_id, 0,
                                      stream_generate(m.detail, words))
        IN /\ m.detail # "generated" => words = 0
           /\ dedicated' = [dedicated EXCEPT !["stream"] =
                    [k EXCEPT !.received = @ + 1, !.msg = m, !.box = box]]
    /\ UNCHANGED <<services, tools, cache, audit, now, queries, last, h_in, h_out,
                   registered, mcp_processor, active_connections, user_sessions,
                   conn, outbox, messages, broadcast, appender>>

\* the dedicated endpoints next to connections served by handle_connection
NextDedicated ==
    \/ \E c \in ConnectionIds : Connect(c) \/ Disconnect(c) \/ ReceiveDisconnect(c)
    \/ \E e \in Endpoints : DedicatedAccept(e)
    \/ ChatMessage
    \/ StreamMessage

SpecDedicated == InitWs /\ [][NextDedicated]_vars

----------------------------------------------------------------------------
(* Properties of the dispatching client and the query processor *)

\* the audit records of the latest invocation
RecordsOfLast == {i \in DOMAIN audit : audit[i].call_id = last.n}

\* the Redis key of the latest dispatch
KeyOfLast == cache_key(last.tool, last.arguments)

\* the returned structure carries an error message
HasErrorMessage(ret) == ret.error # "absent" \/ ret.result.error # "None"

\* the tool_call object a completion text carries, valid span or not
Embedded(completion) == completion.tool_call

\* the latest step was a process_query invocation that dispatched
DispatchStep == queries' = queries + 1 /\ last'.dispatched

\* C1: every dispatch attempt made through call_service_tool leaves exactly
\* one audit record, whatever its outcome: never none and never two.
C1_ExactlyOneAuditRecord ==
    last.dispatched => Cardinality(RecordsOfLast) = 1

C3_OnlySuccessCached ==
    /\ \A k \in DOMAIN cache :
          LET r == JsonLoads(cache[k].value).result
          IN r.kind = "dict" /\ r.success
    /\ (last.dispatched /\ last.call.cached = "True")
          => (last.call.success /\ last.call.result.kind = "dict"
              /\ last.call.result.success)

\* C3 witness: a dispatch that reached its backend and failed, with an
\* earlier success of the same key still in the cache
C3_Witness ==
    /\ last.dispatched /\ last.sent /\ ~last.call.success
    /\ KeyOfLast \in DOMAIN cache

C6_NeverRaises ==
    last.dispatched =>
        (~last.raised /\ (last.call.success \/ HasErrorMessage(last.call)))

\* C7: a failing cache lookup, cache write or audit write does not abort the
\* call and does not change what it returns: the call returns what it returns
\* with healthy stores (from the same cache on a hit, from a miss otherwise).
C7_StoreFailuresAreSoft ==
    ( /\ last.dispatched
      /\ last.at = now
      /\ "fault" \in {last.lookup, last.wrote, last.logged} )
    => ( /\ ~last.raised
         /\ last.call =
              call_service_tool(IF last.lookup = "hit" THEN cache ELSE <<>>,
                                <<>>, last.n, last.service, last.tool,
                                last.arguments,
                                Environment(FALSE, FALSE, FALSE, last.out)).ret )

\* C7 witness: a successful dispatch during which the lookup, the cache write
\* and the audit write all failed
C7_Witness ==
    /\ last.dispatched /\ last.call.success
    /\ last.lookup = "fault" /\ last.wrote = "fault" /\ last.logged = "fault"

\* C8: on a cache miss a tool named get_*, check_* or list_* goes over the RPC
\* transport and every other tool over the HTTP transport.
C8_TransportByPrefix ==
    (last.dispatched /\ last.transport # "none") =>
        (last.transport =
            IF NamePrefix(last.tool) \in {"get_", "check_", "list_"}
            THEN "rpc" ELSE "http")

\* C9: when the completion names a tool the registry does not know, the
\* caller gets an error and nothing else happens: no dispatch (no cache
\* lookup, no transport call), no audit record, no second completion call.
C9_UnknownToolOnlyReports ==
    ( /\ last.n > 0
      /\ TruthyToolCall(parse_tool_call(last.completion))
      /\ parse_tool_call(last.completion).kind = "dict"
      /\ parse_tool_call(last.completion).name \notin DOMAIN tools )
    => ( /\ ~last.ret.success /\ last.ret.error # "absent"
         /\ ~last.dispatched
         /\ last.lookup = "none" /\ last.transport = "none" /\ ~last.sent
         /\ RecordsOfLast = {}
         /\ last.llm_calls = 1 )

\* C9 witness: a query whose completion asked for no_such_tool
C9_Witness ==
    /\ last.n > 0
    /\ last.completion = CallText("no_such_tool", ArgsUT)
    /\ ~last.ret.success

\* C10: when the completion carries a tool_call object that names a
\* registered tool, process_query calls the dispatching client with that
\* name and those arguments and returns the summary text, tool_used = the
\* name, and the tool result.
C10_RegisteredToolIsDispatched ==
    ( /\ last.n > 0
      /\ last.completion.mention
      /\ Embedded(last.completion).kind = "dict"
      /\ Embedded(last.completion).name \in DOMAIN tools )
    => ( /\ last.dispatched
         /\ last.tool = Embedded(last.completion).name
         /\ last.arguments = Embedded(last.completion).arguments
         /\ last.ret.success
         /\ last.ret.response = SummaryText
         /\ last.ret.tool_used = Embedded(last.completion).name
         /\ last.ret.tool_result = last.call )

\* C11: when the completion text carries no tool_call object, process_query
\* returns success = true with the raw completion text as the response, makes
\* no dispatch and writes no audit record.
C11_FreeTextIsReturned ==
    ( /\ last.n > 0
      /\ last.completion.id = "completion"
      /\ Embedded(last.completion).kind = "None" )
    => ( /\ last.ret.success
         /\ last.ret.response = last.completion
         /\ last.ret.tool_used = "absent"
         /\ ~last.dispatched
         /\ last.lookup = "none" /\ last.transport = "none"
         /\ RecordsOfLast = {} )

\* C11 witness: a text that mentions tool_call in prose and is handed back
C11_Witness ==
    /\ last.n > 0
    /\ last.completion = MentionText
    /\ last.ret.response = MentionText

\* C12: process_query never raises: every exception of the pipeline (the
\* completion call, a malformed tool_call value, the registry, the dispatch,
\* the summary) is caught and becomes success = false with an error message.
C12_QueryNeverRaises ==
    last.n > 0 =>
        ( /\ ~last.query_raised
          /\ last.caught => (~last.ret.success /\ last.ret.error # "absent")
          /\ ( \/ last.completion.id = "raises"
               \/ parse_tool_call(last.completion).kind = "str"
               \/ last.dispatched /\ last.raised
               \/ /\ parse_tool_call(last.completion).kind = "dict"
                  /\ parse_tool_call(last.completion).name \notin DOMAIN tools )
               => last.caught )

\* C12 witness: the exception of a dispatch that raised was caught
C12_Witness ==
    /\ last.n > 0 /\ last.dispatched /\ last.raised
    /\ last.caught /\ ~last.ret.success

\* C13: for a query in which a tool was invoked, the mcp_response data and
\* the REST response name the tool used and the service that was called and
\* carry the raw tool result.
C13_ToolAndServiceReported ==
    (last.n > 0 /\ last.ret.success /\ last.ret.tool_used # "absent") =>
        ( /\ mcp_response_data(last.ret).tool_used = last.tool
          /\ mcp_response_data(last.ret).raw_result = last.call
          /\ mcp_response_data(last.ret).service_called = last.service
          /\ natural_language_query_response(last.ret).tool_used = last.tool
          /\ natural_language_query_response(last.ret).raw_result = last.call
          /\ natural_language_query_response(last.ret).service_called = last.service )

\* C14: after a tool name is registered under a service, find_tool resolves
\* the name to that service and its endpoint, whichever service owned the
\* name before: the last registration wins.
C14_LastWriteWins ==
    \A t \in Range(registered.tools) :
        /\ find_tool(t).found
        /\ find_tool(t).service = registered.service
        /\ find_tool(t).service_url = registered.url

\* C14 witness: the latest registration took a name that another service
\* had registered
C14_Witness ==
    /\ registered.n >= 2
    /\ \E i \in DOMAIN services :
          /\ services[i].name # registered.service
          /\ Range(services[i].tools) \cap Range(registered.tools) # {}

\* C15: whatever register_service calls were made, get_available_tools holds
\* at most one entry per tool name.
C15_ToolNamesUnique ==
    LET listed == get_available_tools(services)
    IN \A i, j \in DOMAIN listed : listed[i].name = listed[j].name => i = j

\* the types of the envelopes attempted on a connection since its latest read
Types(c) == [i \in DOMAIN outbox[c] |-> outbox[c][i].type]

\* the handler has finished the message it read last and awaits the next
Answered(c) == conn[c].pc = "receive" /\ conn[c].msg # NoMessage

\* C16: a stream message yields exactly one stream_start, then stream_chunk
\* envelopes only, then exactly one terminal envelope and nothing after it;
\* the terminal envelope is stream_error when generation fails and stream_end
\* otherwise.
C16_StreamEnvelopeOrder ==
    \A c \in ConnectionIds :
        conn[c].msg.type = "stream" =>
            LET n == Len(outbox[c])
            IN /\ n >= 1 /\ Types(c)[1] = "stream_start"
               /\ \A i \in 2..(n - 1) : Types(c)[i] = "stream_chunk"
               /\ conn[c].pc = "stream" => \A i \in 2..n : Types(c)[i] = "stream_chunk"
               /\ Answered(c) =>
                    /\ n >= 2
                    /\ Types(c)[n] = IF conn[c].msg.detail = "fails"
                                     THEN "stream_error" ELSE "stream_end"

\* C17, as stated: every mcp_query message yields mcp_processing and then
\* exactly one mcp_response, and nothing else.
C17_EveryQueryAnswered ==
    \A c \in ConnectionIds :
        (conn[c].msg.type = "mcp_query" /\ Answered(c)) =>
            Types(c) = <<"mcp_processing", "mcp_response">>

\* C17, amended: an mcp_query message whose query is a non-blank string, read
\* while the query processor is available, yields mcp_processing and then
\* exactly one mcp_response that carries the result of process_query.
C17_TextQueryAnswered ==
    [][ \A c \in ConnectionIds :
          ( /\ conn'[c].received = conn[c].received + 1
            /\ conn'[c].msg.type = "mcp_query" /\ conn'[c].msg.detail = "text"
            /\ mcp_processor )
          => ( /\ queries' = queries + 1
               /\ Len(outbox'[c]) = 2
               /\ outbox'[c][1].type = "mcp_processing"
               /\ outbox'[c][2].type = "mcp_response"
               /\ outbox'[c][2].message_id = conn'[c].received
               /\ outbox'[c][2].success = last'.ret.success
               /\ outbox'[c][2].data = IF last'.ret.success
                                       THEN mcp_response_data(last'.ret) ELSE NoData ) ]_vars

\* C17 witness: a query answered with the result of a tool call, after
\* mcp_processing
C17_Witness ==
    \E c \in ConnectionIds :
        /\ conn[c].msg.type = "mcp_query" /\ Answered(c)
        /\ Types(c) = <<"mcp_processing", "mcp_response">>
        /\ outbox[c][2].success
        /\ outbox[c][2].data.tool_used = "get_user_preferences"

\* a message whose handling fails: a malformed envelope, an unsupported
\* type, a handler that raises, a generation that fails mid-stream
MessageFails(m) ==
    \/ m.type \in {"malformed", "not_mapping", "unsupported"}
    \/ m.type \in {"generate", "conversational"} /\ m.detail = "raises"
    \/ m.type = "mcp_query" /\ m.detail = "not_text"
    \/ m.type = "stream" /\ m.detail = "fails"

\* C18: a message whose handling fails is answered with an error or
\* stream_error envelope and leaves the connection registered and its loop
\* reading the next message.
C18_FailuresKeepConnection ==
    \A c \in ConnectionIds :
        (MessageFails(conn[c].msg) /\ conn[c].pc # "stream" /\ ~conn[c].closed) =>
            /\ conn[c].pc = "receive"
            /\ c \in active_connections
            /\ \E i \in DOMAIN outbox[c] : Types(c)[i] \in {"error", "stream_error"}

\* the connection id is in neither the registry nor the fan-out index
Removed(c) ==
    /\ c \notin active_connections
    /\ \A u \in DOMAIN user_sessions : c \notin user_sessions[u]

\* C19: after a transport-level disconnect the connection id is eventually
\* removed from active_connections and user_sessions, for good.
C19_DisconnectCleansUp ==
    \A c \in ConnectionIds : conn[c].closed ~> []Removed(c)

\* C20: no envelope of a stream is attempted on a socket whose peer has
\* disconnected.
C20_NoSendAfterDisconnect ==
    \A c \in ConnectionIds :
        \A i \in DOMAIN outbox[c] :
            Types(c)[i] \in {"stream_chunk", "stream_end", "stream_error"}
                => ~outbox[c][i].late

\* the envelopes a step adds for connection c extend what was already sent
IsPrefix(s, t) == Len(s) <= Len(t) /\ SubSeq(t, 1, Len(s)) = s

\* C21: within one connection the next message is read only when the
\* handling of the previous one has finished (the handler is back at
\* receive_text with nothing left to send), and while a message is being
\* answered its envelopes are only added to, whatever the other connections do.
C21_OneMessageAtATime ==
    [][ \A c \in ConnectionIds :
          /\ conn'[c].received # conn[c].received
                => (conn[c].pc = "receive" /\ conn[c].plan = <<>>)
          /\ conn[c].pc = "stream"
                => ( /\ conn'[c].received = conn[c].received
                     /\ conn'[c].msg = conn[c].msg
                     /\ IsPrefix(outbox[c], outbox'[c]) ) ]_vars

\* C21 witness: one connection is in the middle of a stream, with a chunk
\* delivered and more to come, while the other has had a message answered
C21_Witness ==
    \E c, other \in ConnectionIds :
        /\ c # other
        /\ conn[c].pc = "stream" /\ conn[c].plan # <<>> /\ Len(outbox[c]) >= 2
        /\ conn[other].received >= 1 /\ outbox[other] # <<>>
        /\ conn[other].pc = "receive"

\* C22: once a conversational message of a known user has been answered with
\* a response envelope, the history store holds its user turn, and after a
\* successful generation its assistant turn too, in that order.
C22_TurnsPersisted ==
    \A c \in ConnectionIds :
        ( /\ Answered(c) /\ conn[c].msg.type = "conversational"
          /\ conn[c].msg.detail # "raises"
          /\ conn[c].user_id # "None" )
        => \E i \in DOMAIN messages :
              /\ messages[i] = [role |-> "human", of |-> <<c, conn[c].received>>]
              /\ conn[c].msg.detail = "ok"
                    => \E j \in DOMAIN messages :
                          /\ i < j
                          /\ messages[j] = [role |-> "assistant",
                                            of |-> <<c, conn[c].received>>]

\* the types of the envelopes delivered on the socket of endpoint e
Delivered(e) == [i \in DOMAIN dedicated[e].box |-> dedicated[e].box[i].type]

\* C23: on /ws/chat every inbound JSON object whose generation returns is
\* answered with a response envelope on that socket, and on /ws/stream every
\* inbound JSON object is answered on that socket with stream_start, its
\* chunks and then stream_end or stream_error.
C23_DedicatedDelivery ==
    /\ dedicated["chat"].msg.detail \in {"ok", "failed"}
          => Delivered("chat") = <<"response">>
    /\ dedicated["stream"].msg.detail \in {"generated", "fails"}
          => /\ Len(Delivered("stream")) >= 2
             /\ Head(Delivered("stream")) = "stream_start"
             /\ Delivered("stream")[Len(Delivered("stream"))]
                    \in {"stream_end", "stream_error"}

\* C24: in every state, each connection id listed under a user in
\* user_sessions is registered in active_connections, and no user is listed
\* with an empty set.
C24_IndexesConsistent ==
    \A u \in DOMAIN user_sessions :
        /\ user_sessions[u] # {}
        /\ user_sessions[u] \subseteq active_connections

\* C24 witness: broadcast_to_user has removed a connection whose handler is
\* still running, while the same user keeps another registered connection
C24_Witness ==
    \E c, other \in ConnectionIds :
        /\ broadcast.calls >= 1
        /\ conn[c].pc \in {"receive", "stream"} /\ conn[c].user_id = "u1"
        /\ c \notin active_connections
        /\ "u1" \in DOMAIN user_sessions /\ user_sessions["u1"] = {other}

\* C25: whatever register_service calls were made, every entry that
\* get_available_tools lists is resolved by find_tool under its name, and to
\* the service the entry names.
C25_ViewsAgree ==
    LET listed == get_available_tools(services)
    IN \A i \in DOMAIN listed :
          /\ find_tool(listed[i].name).found
          /\ find_tool(listed[i].name).service = listed[i].service

\* the latest two dispatches: a call of a tool that is neither get_ nor
\* check_ prefixed went to its backend over HTTP and succeeded, and the same
\* tool is called with the same arguments before the TTL has run out
RepeatedHttpCall ==
    /\ DispatchStep
    /\ last.dispatched /\ ~last.raised /\ last.call.success
    /\ last.transport = "http" /\ last.sent
    /\ now < last.at + DefaultTtl
    /\ last'.tool = last.tool
    /\ SameArguments(last'.arguments, last.arguments)

C27_SuccessIgnoresDispatch ==
    /\ ( /\ last.n >= 1
         /\ parse_tool_call(last.completion).kind = "dict"
         /\ find_tool(last.tool).found
         /\ last.llm_calls = 2 /\ ~last.caught )
          => (last.ret.success /\ last.ret.tool_used = last.tool)
    /\ (last.n >= 1 /\ ~last.ret.success) => last.caught

\* C27 witness: a dispatch that reached its backend and failed, reported by
\* process_query with success=true
C27_Witness ==
    /\ last.dispatched /\ last.sent /\ ~last.call.success
    /\ last.llm_calls = 2
    /\ last.ret.success /\ last.ret.tool_used = last.tool
    /\ ~last.ret.tool_result.success

\* C28: with the registry that initialize_mcp_services builds, every dispatch
\* of a tool that find_tool resolves goes to a service that has an entry in
\* service_endpoints, and none ends with the unknown-service error.
C28_BootstrapToolsHaveEndpoints ==
    last.dispatched
        => ( /\ find_tool(last.tool).found
             /\ find_tool(last.tool).service \in DOMAIN service_endpoints
             /\ last.call.error # "Unknown service" )

\* C29: every error envelope of the read loop carries no message_id or the
\* id of the inbound message that was being processed when it was sent,
\* never the id of an earlier message of the connection.
C29_ErrorNamesItsMessage ==
    \A c \in ConnectionIds :
        \A i \in DOMAIN outbox[c] :
            outbox[c][i].type = "error"
                => outbox[c][i].message_id \in {0, conn[c].received}

\* C30: once every append_conversation_message call that was started has
\* completed, the cached list of each conversation holds the message of
\* every call made for it.
C30_NoAppendLost ==
    (\A t \in Appenders : appender[t].pc # "read")
        => \A t \in Appenders :
              appender[t].pc = "done"
                => t \in Range(get_cached_conversation(
                                  cache, appender[t].conversation_id).messages)

=============================================================================
